---- MODULE Spec2Model ----
(***************************************************************************)
(* A model of gonum's spatial/curve (Hilbert2D, Hilbert3D, Hilbert4D) and  *)
(* spatial/rtree (Tree, Branch, Leaf, HilbertCurvePivot).                  *)
(*                                                                         *)
(* Go slices are 0-based; sequences here are 1-based, so v[i] of the       *)
(* source is v[i + 1] here.  All operators take and return values; a Go    *)
(* method that mutates its receiver or its argument returns the new value. *)
(***************************************************************************)
EXTENDS Integers, Sequences, FiniteSets, TLC

(***************************************************************************)
(* Bit arithmetic on non-negative machine integers.                        *)
(***************************************************************************)

\* x >> n
Shr(x, n) == x \div (2 ^ n)

\* x << n
Shl(x, n) == x * (2 ^ n)

\* (x >> n) & 1
Bit(x, n) == Shr(x, n) % 2

RECURSIVE Xor(_, _)
\* a ^ b, bit by bit
Xor(a, b) ==
    IF a = 0 THEN b
    ELSE IF b = 0 THEN a
    ELSE (((a % 2) + (b % 2)) % 2) + 2 * Xor(a \div 2, b \div 2)

\* 1<<n - 1
Mask(n) == (2 ^ n) - 1

\* A slice made and then filled element by element: f[1], ..., f[Len(f)],
\* each computed once.
Slice(f) == f \o <<>>

(***************************************************************************)
(* package curve: the permutation operators.                               *)
(***************************************************************************)

invert(i, j) == [op |-> "invert", i |-> i, j |-> j]
swap(i, j) == [op |-> "swap", i |-> i, j |-> j]
flip(i, j) == [op |-> "flip", i |-> i, j |-> j]

\* invert.do: v[i], v[j] = v[i]^(1<<n-1), v[j]^(1<<n-1)
invertDo(c, n, v) ==
    [v EXCEPT ![c.i + 1] = Xor(v[c.i + 1], Mask(n)),
              ![c.j + 1] = Xor(v[c.j + 1], Mask(n))]

\* swap.do: v[i], v[j] = v[j], v[i]
swapDo(c, n, v) ==
    [v EXCEPT ![c.i + 1] = v[c.j + 1],
              ![c.j + 1] = v[c.i + 1]]

\* flip.do: v[i], v[j] = v[j]^(1<<n-1), v[i]^(1<<n-1)
flipDo(c, n, v) ==
    [v EXCEPT ![c.i + 1] = Xor(v[c.j + 1], Mask(n)),
              ![c.j + 1] = Xor(v[c.i + 1], Mask(n))]

\* op.do, dispatched on the operator's type
do(c, n, v) ==
    CASE c.op = "invert" -> invertDo(c, n, v)
      [] c.op = "swap" -> swapDo(c, n, v)
      [] c.op = "flip" -> flipDo(c, n, v)

\* do2 with the reverse flag ignored: the operations always run forward.
do2Forward(reverse, n, v, a, b) == do(b, n, do(a, n, v))

\* do2 executes the given operations, optionally in reverse.
do2(reverse, n, v, a, b) ==
    IF reverse THEN do(a, n, do(b, n, v))
    ELSE do(b, n, do(a, n, v))

(***************************************************************************)
(* Hilbert2D                                                               *)
(***************************************************************************)

\* Hilbert2D.rot with case 3 swapping without inverting.
Hilbert2DRotSwap(n, v, d) ==
    CASE d = 0 -> do(swap(0, 1), n, v)
      [] d = 3 -> do(swap(0, 1), n, v)
      [] OTHER -> v

Hilbert2DRot(n, v, d) ==
    CASE d = 0 -> do(swap(0, 1), n, v)
      [] d = 3 -> do(flip(0, 1), n, v)
      [] OTHER -> v

RECURSIVE Hilbert2DPosLoop(_, _, _, _)
\* The loop of Hilbert2D.Pos, entered with loop variable n; [d, v] at exit.
Hilbert2DPosLoop(Order, n, v, d) ==
    IF n < 0 THEN [d |-> d, v |-> v]
    ELSE LET rx == Bit(v[1], n)
             ry == Bit(v[2], n)
             rd == Shl(ry, 1) + Xor(ry, rx)
         IN  Hilbert2DPosLoop(Order, n - 1, Hilbert2DRot(Order, v, rd),
                              d + Shl(rd, 2 * n))

Hilbert2DPos(Order, v) == Hilbert2DPosLoop(Order, Order - 1, v, 0)

RECURSIVE Hilbert2DCoordLoop(_, _, _, _)
Hilbert2DCoordLoop(Order, n, v, pos) ==
    IF n >= Order THEN v
    ELSE LET e == pos % 4
             w == Hilbert2DRot(n, v, e)
             ry == Shr(e, 1)
             rx == Xor(e, Shr(e, 1)) % 2
         IN  Hilbert2DCoordLoop(Order, n + 1,
                 [w EXCEPT ![1] = @ + Shl(rx, n), ![2] = @ + Shl(ry, n)],
                 Shr(pos, 2))

Hilbert2DCoord(Order, pos) == Hilbert2DCoordLoop(Order, 0, <<0, 0>>, pos)

(***************************************************************************)
(* Hilbert3D                                                               *)
(***************************************************************************)

\* Hilbert3D.rot with case 0 given the operations of cases 1, 2.
Hilbert3DRotCase0(reverse, n, v, d) ==
    CASE d = 0 -> do2(reverse, n, v, swap(0, 2), swap(1, 2))
      [] d \in {1, 2} -> do2(reverse, n, v, swap(0, 2), swap(1, 2))
      [] d \in {3, 4} -> do(invert(0, 1), n, v)
      [] d \in {5, 6} -> do2(reverse, n, v, flip(0, 2), flip(1, 2))
      [] d = 7 -> do2(reverse, n, v, flip(1, 2), flip(0, 2))
      [] OTHER -> v

Hilbert3DRot(reverse, n, v, d) ==
    CASE d = 0 -> do2(reverse, n, v, swap(1, 2), swap(0, 2))
      [] d \in {1, 2} -> do2(reverse, n, v, swap(0, 2), swap(1, 2))
      [] d \in {3, 4} -> do(invert(0, 1), n, v)
      [] d \in {5, 6} -> do2(reverse, n, v, flip(0, 2), flip(1, 2))
      [] d = 7 -> do2(reverse, n, v, flip(1, 2), flip(0, 2))
      [] OTHER -> v

RECURSIVE Hilbert3DPosLoop(_, _, _, _)
Hilbert3DPosLoop(Order, n, v, d) ==
    IF n < 0 THEN [d |-> d, v |-> v]
    ELSE LET rx == Bit(v[1], n)
             ry == Bit(v[2], n)
             rz == Bit(v[3], n)
             rd == Shl(rz, 2) + Shl(Xor(rz, ry), 1) + Xor(Xor(rz, ry), rx)
         IN  Hilbert3DPosLoop(Order, n - 1, Hilbert3DRot(FALSE, Order, v, rd),
                              d + Shl(rd, 3 * n))

Hilbert3DPos(Order, v) == Hilbert3DPosLoop(Order, Order - 1, v, 0)

RECURSIVE Hilbert3DCoordLoop(_, _, _, _)
Hilbert3DCoordLoop(Order, n, v, pos) ==
    IF n >= Order THEN v
    ELSE LET e == pos % 8
             w == Hilbert3DRot(TRUE, n, v, e)
             rz == Shr(e, 2)
             ry == Xor(Shr(e, 1), Shr(e, 2)) % 2
             rx == Xor(e, Shr(e, 1)) % 2
         IN  Hilbert3DCoordLoop(Order, n + 1,
                 [w EXCEPT ![1] = @ + Shl(rx, n), ![2] = @ + Shl(ry, n),
                           ![3] = @ + Shl(rz, n)],
                 Shr(pos, 3))

Hilbert3DCoord(Order, pos) == Hilbert3DCoordLoop(Order, 0, <<0, 0, 0>>, pos)

(***************************************************************************)
(* Hilbert4D                                                               *)
(***************************************************************************)

\* Hilbert4D.rot with cases 7, 8 inverting axes 0 and 1 (as Hilbert3D does).
Hilbert4DRotInvert01(reverse, n, v, d) ==
    CASE d = 0 -> do2(reverse, n, v, swap(1, 3), swap(0, 3))
      [] d \in {1, 2} -> do2(reverse, n, v, swap(0, 3), swap(1, 3))
      [] d \in {3, 4} -> do2(reverse, n, v, flip(0, 1), swap(2, 3))
      [] d \in {5, 6} -> do2(reverse, n, v, flip(1, 2), swap(2, 3))
      [] d \in {7, 8} -> do(invert(0, 1), n, v)
      [] d \in {9, 10} -> do2(reverse, n, v, flip(1, 2), flip(2, 3))
      [] d \in {11, 12} -> do2(reverse, n, v, flip(0, 1), flip(2, 3))
      [] d \in {13, 14} -> do2(reverse, n, v, flip(0, 3), flip(1, 3))
      [] d = 15 -> do2(reverse, n, v, flip(1, 3), flip(0, 3))
      [] OTHER -> v

Hilbert4DRot(reverse, n, v, d) ==
    CASE d = 0 -> do2(reverse, n, v, swap(1, 3), swap(0, 3))
      [] d \in {1, 2} -> do2(reverse, n, v, swap(0, 3), swap(1, 3))
      [] d \in {3, 4} -> do2(reverse, n, v, flip(0, 1), swap(2, 3))
      [] d \in {5, 6} -> do2(reverse, n, v, flip(1, 2), swap(2, 3))
      [] d \in {7, 8} -> do(invert(0, 2), n, v)
      [] d \in {9, 10} -> do2(reverse, n, v, flip(1, 2), flip(2, 3))
      [] d \in {11, 12} -> do2(reverse, n, v, flip(0, 1), flip(2, 3))
      [] d \in {13, 14} -> do2(reverse, n, v, flip(0, 3), flip(1, 3))
      [] d = 15 -> do2(reverse, n, v, flip(1, 3), flip(0, 3))
      [] OTHER -> v

RECURSIVE Hilbert4DPosCode(_, _, _, _)
\* The inner loop of Hilbert4D.Pos: e = e<<1 | (e^v)&1 for i = N-1 down to 0.
Hilbert4DPosCode(v, n, i, e) ==
    IF i < 0 THEN e
    ELSE Hilbert4DPosCode(v, n, i - 1,
                          Shl(e, 1) + (Xor(e, Bit(v[i + 1], n)) % 2))

RECURSIVE Hilbert4DPosLoopShift3(_, _, _, _)
\* Hilbert4D.Pos adding e << (3 * n), the shift of Hilbert3D.Pos.
Hilbert4DPosLoopShift3(Order, n, v, d) ==
    IF n < 0 THEN [d |-> d, v |-> v]
    ELSE LET e == Hilbert4DPosCode(v, n, 3, 0)
         IN  Hilbert4DPosLoopShift3(Order, n - 1,
                                    Hilbert4DRot(FALSE, Order, v, e),
                                    d + Shl(e, 3 * n))

RECURSIVE Hilbert4DPosLoop(_, _, _, _)
Hilbert4DPosLoop(Order, n, v, d) ==
    IF n < 0 THEN [d |-> d, v |-> v]
    ELSE LET e == Hilbert4DPosCode(v, n, 3, 0)
         IN  Hilbert4DPosLoop(Order, n - 1, Hilbert4DRot(FALSE, Order, v, e),
                              d + Shl(e, 4 * n))

Hilbert4DPos(Order, v) == Hilbert4DPosLoop(Order, Order - 1, v, 0)

RECURSIVE Hilbert4DCoordBits(_, _, _, _)
\* The inner loop of Hilbert4D.Coord4D: v[i] += (e ^ e>>1) & 1 << n; e >>= 1.
Hilbert4DCoordBits(v, n, i, e) ==
    IF i >= 4 THEN v
    ELSE Hilbert4DCoordBits(
             [v EXCEPT ![i + 1] = @ + Shl(Xor(e, Shr(e, 1)) % 2, n)],
             n, i + 1, Shr(e, 1))

RECURSIVE Hilbert4DCoordLoop(_, _, _, _)
Hilbert4DCoordLoop(Order, n, v, pos) ==
    IF n >= Order THEN v
    ELSE LET e == pos % 16
             w == Hilbert4DRot(TRUE, n, v, e)
         IN  Hilbert4DCoordLoop(Order, n + 1, Hilbert4DCoordBits(w, n, 0, e),
                                Shr(pos, 4))

Hilbert4DCoord(Order, pos) ==
    Hilbert4DCoordLoop(Order, 0, <<0, 0, 0, 0>>, pos)

(***************************************************************************)
(* The curve interface of the tests, and newCurve's dispatch on dimension. *)
(***************************************************************************)

\* Len: 1 << (n * Order)
CurveLen(dim, Order) == 2 ^ (dim * Order)

\* Dims: {1 << Order, ...}
Dims(dim, Order) == Slice([i \in 1..dim |-> 2 ^ Order])

\* Pos: [d |-> the position, v |-> the argument as Pos leaves it]
Pos(dim, Order, v) ==
    CASE dim = 2 -> Hilbert2DPos(Order, v)
      [] dim = 3 -> Hilbert3DPos(Order, v)
      [] dim = 4 -> Hilbert4DPos(Order, v)

Coord(dim, Order, pos) ==
    CASE dim = 2 -> Hilbert2DCoord(Order, pos)
      [] dim = 3 -> Hilbert3DCoord(Order, pos)
      [] dim = 4 -> Hilbert4DCoord(Order, pos)

\* coord returns the nth spatial coordinates for a dim-dimensional space with
\* sides 2^ord in row-major order.
coord(n, ord, dim) ==
    Slice([i \in 1..dim |-> (n \div (2 ^ (ord * (i - 1)))) % (2 ^ ord)])

\* adjacent returns true if the euclidean distance between v and u is one.
adjacent(v, u) ==
    /\ \A i \in 1..Len(v) : v[i] - u[i] \in {-1, 0, 1}
    /\ Cardinality({i \in 1..Len(v) : v[i] - u[i] # 0}) = 1

(***************************************************************************)
(* The authors' reference tables (hilbert_test.go), in decimal.            *)
(***************************************************************************)

\* TestHilbert2D, cases[1] (row-major, axis 0 fastest)
Hilbert2DCase1 ==
    <<0, 1,
      3, 2>>

\* TestHilbert2D, cases[2] (row-major, axis 0 fastest)
Hilbert2DCase2 ==
    <<0, 3, 4, 5,
      1, 2, 7, 6,
      14, 13, 8, 9,
      15, 12, 11, 10>>

\* TestHilbert2D, cases[3] (row-major, axis 0 fastest)
Hilbert2DCase3 ==
    <<0, 1, 14, 15, 16, 19, 20, 21,
      3, 2, 13, 12, 17, 18, 23, 22,
      4, 7, 8, 11, 30, 29, 24, 25,
      5, 6, 9, 10, 31, 28, 27, 26,
      58, 57, 54, 53, 32, 35, 36, 37,
      59, 56, 55, 52, 33, 34, 39, 38,
      60, 61, 50, 51, 46, 45, 40, 41,
      63, 62, 49, 48, 47, 44, 43, 42>>

\* TestHilbert3D, cases[1]
Hilbert3DCase1 ==
    <<0, 1,
      3, 2,
      7, 6,
      4, 5>>

\* TestHilbert3D, cases[2]
Hilbert3DCase2 ==
    <<0, 7, 8, 11,
      1, 6, 15, 12,
      26, 27, 16, 19,
      25, 24, 23, 20,
      3, 4, 9, 10,
      2, 5, 14, 13,
      29, 28, 17, 18,
      30, 31, 22, 21,
      60, 59, 54, 53,
      61, 58, 49, 50,
      34, 35, 46, 45,
      33, 32, 41, 42,
      63, 56, 55, 52,
      62, 57, 48, 51,
      37, 36, 47, 44,
      38, 39, 40, 43>>

\* ExampleHilbert4D_Pos, the printed output read left to right, top to
\* bottom: row z*4 + y, column w*4 + x.
Hilbert4DExample ==
    <<0, 15, 16, 19, 3, 12, 17, 18, 252, 243, 238, 237, 255, 240, 239, 236,
      1, 14, 31, 28, 2, 13, 30, 29, 253, 242, 225, 226, 254, 241, 224, 227,
      50, 49, 32, 35, 53, 54, 33, 34, 202, 201, 222, 221, 205, 206, 223, 220,
      51, 48, 47, 44, 52, 55, 46, 45, 203, 200, 209, 210, 204, 207, 208, 211,
      7, 8, 23, 20, 4, 11, 22, 21, 251, 244, 233, 234, 248, 247, 232, 235,
      6, 9, 24, 27, 5, 10, 25, 26, 250, 245, 230, 229, 249, 246, 231, 228,
      61, 62, 39, 36, 58, 57, 38, 37, 197, 198, 217, 218, 194, 193, 216, 219,
      60, 63, 40, 43, 59, 56, 41, 42, 196, 199, 214, 213, 195, 192, 215, 212,
      118, 119, 108, 109, 121, 120, 107, 106, 134, 135, 148, 149, 137, 136, 147, 146,
      117, 116, 99, 98, 122, 123, 100, 101, 133, 132, 155, 154, 138, 139, 156, 157,
      66, 65, 92, 93, 69, 70, 91, 90, 186, 185, 164, 165, 189, 190, 163, 162,
      67, 64, 83, 82, 68, 71, 84, 85, 187, 184, 171, 170, 188, 191, 172, 173,
      113, 112, 111, 110, 126, 127, 104, 105, 129, 128, 151, 150, 142, 143, 144, 145,
      114, 115, 96, 97, 125, 124, 103, 102, 130, 131, 152, 153, 141, 140, 159, 158,
      77, 78, 95, 94, 74, 73, 88, 89, 181, 182, 167, 166, 178, 177, 160, 161,
      76, 79, 80, 81, 75, 72, 87, 86, 180, 183, 168, 169, 179, 176, 175, 174>>

\* The table of a curve, indexed by the cell's row-major number + 1, or <<>>
\* where the tests give none.
CaseTable(dim, Order) ==
    CASE dim = 2 /\ Order = 1 -> Hilbert2DCase1
      [] dim = 2 /\ Order = 2 -> Hilbert2DCase2
      [] dim = 2 /\ Order = 3 -> Hilbert2DCase3
      [] dim = 3 /\ Order = 1 -> Hilbert3DCase1
      [] dim = 3 /\ Order = 2 -> Hilbert3DCase2
      [] dim = 4 /\ Order = 2 ->
            \* the example prints h.Pos([]int{x, y, z, w}) at row z*4 + y,
            \* column w*4 + x
            Slice([i \in 1..256 |->
                LET c == coord(i - 1, 2, 4)
                IN  Hilbert4DExample[(c[3] * 4 + c[2]) * 16 + c[4] * 4 + c[1] + 1]])
      [] OTHER -> <<>>

(***************************************************************************)
(* State.                                                                  *)
(***************************************************************************)

VARIABLES
    \* package rtree
    t,          \* the Tree: [FillLevel, Pivot, Root]
    nanInt,     \* what int(NaN) yields on this build (quantize, zero-width axis)
    shellPass,  \* whether this build's sort runs a Shell pass on 7..12 elements
    inserted,   \* the items handed to Tree.Insert so far, in call order
    out,        \* the outcome of the last call on the tree
    \* package curve, as driven by hilbert_test.go
    h,          \* the curve under test: [dim, Order]
    n,          \* the cell number / curve index drawn for the test
    cpc,        \* the test's position
    posResult,  \* Pos(dup(coord(n))): [d, v]
    coordResult,\* Coord(posResult.d)
    at,         \* Coord(n)
    next,       \* Coord(n + 1)
    row,        \* testCurve's scan: the next row of the grid
    seen,       \* testCurve's scan: the positions Pos has returned so far
    \* one call of a function of package rtree on arguments of the caller's
    upc,        \* the caller's position
    S,          \* the set handed to the pivot function, as it is now
    pivotOrder, \* the order handed to HilbertCurvePivot
    once,       \* the first call of the pivot function: [set, i, panic]
    twice,      \* the second call, on the set the first one left
    branch,     \* the Branch pickForInsert is called on
    item,       \* the item it is called with
    pick        \* the index (from 1) of the child pickForInsert returned

treeVars == <<t, nanInt, shellPass, inserted, out>>
curveVars == <<h, n, cpc, posResult, coordResult, at, next, row, seen>>
unitVars == <<upc, S, pivotOrder, once, twice, branch, item, pick>>
vars == <<t, nanInt, shellPass, inserted, out, h, n, cpc, posResult, coordResult,
          at, next, row, seen, upc, S, pivotOrder, once, twice, branch, item,
          pick>>

\* The orders the tests run: for ord := 1; ord <= 4; ord++
MaxOrder == 4

Curves == [dim : {2, 3, 4}, Order : 1..MaxOrder]

None == <<>>

\* A nil interface value (Tree.Root, Options.Pivot's absence is "nil").
Nil == [kind |-> "nil"]

\* A Tree as new(rtree.Tree) leaves it.
NewTree == [FillLevel |-> 0, Pivot |-> "nil", Root |-> Nil]

(***************************************************************************)
(* package rtree.  Coordinates are float64 in the source; here they are    *)
(* small integers, on which the source's float arithmetic is exact.        *)
(***************************************************************************)

\* Bounding{Min, Max}
Bounding(Min, Max) == [Min |-> Min, Max |-> Max]

\* Bounding{}: Min and Max are nil
ZeroBounding == [Min |-> <<>>, Max |-> <<>>]

\* Bounded.Bounds: of an item, of a Leaf, of a Branch, of an OverlapKeeper
Bounds(b) == b.Bounding

mathMin(x, y) == IF x < y THEN x ELSE y
mathMax(x, y) == IF x > y THEN x ELSE y

\* Overlaps returns true if A and B overlap each other.
Overlaps(a, b) ==
    \A i \in 1..Len(a.Min) : ~(a.Min[i] > b.Max[i] \/ a.Max[i] < b.Min[i])

\* Extent calculates the minimum bounds containing both A and B.
Extent(a, b) ==
    [Min |-> Slice([i \in 1..Len(a.Min) |-> mathMin(a.Min[i], b.Min[i])]),
     Max |-> Slice([i \in 1..Len(a.Min) |-> mathMax(a.Max[i], b.Max[i])])]

RECURSIVE AreaLoop(_, _, _)
AreaLoop(a, i, area) ==
    IF i > Len(a.Min) THEN area
    ELSE AreaLoop(a, i + 1, area * (a.Max[i] - a.Min[i]))

\* Area calculates the area of the bounding box.
Area(a) == AreaLoop(a, 1, 1)

EqualTo(a, b) ==
    \A i \in 1..Len(a.Min) : ~(a.Min[i] # b.Min[i] \/ a.Max[i] # b.Max[i])

RECURSIVE calculateBoundsLoop(_, _, _)
calculateBoundsLoop(v, i, b) ==
    IF i > Len(v) THEN b
    ELSE calculateBoundsLoop(v, i + 1, Extent(b, Bounds(v[i])))

calculateBounds(v) ==
    IF Len(v) = 0 THEN ZeroBounding
    ELSE calculateBoundsLoop(v, 2, Bounds(v[1]))

\* The centre of HilbertCurvePivot, kept doubled so that it stays an integer:
\* center[i] = (bn.Min.Dim(i) + bn.Max.Dim(i)) / 2
center2(bn) == Slice([i \in 1..Len(bn.Min) |-> bn.Min[i] + bn.Max[i]])

\* quantize, of a doubled point p2.  On an axis where b.Max = b.Min the
\* quotient is 0/0 = NaN and int(NaN) is whatever the build yields (nan).
quantize(b, w, p2, nan) ==
    Slice([i \in 1..Len(p2) |->
        IF b.Max[i] = b.Min[i] THEN nan
        ELSE LET q == (w * (p2[i] - 2 * b.Min[i])) \div (2 * (b.Max[i] - b.Min[i]))
             IN  IF q = w THEN q - 1 ELSE q])

RECURSIVE insertionSortInnerLessEq(_, _)
\* insertionSort comparing with <= where Less compares with <.
insertionSortInnerLessEq(s, j) ==
    IF j > 1 /\ s[j].key <= s[j - 1].key
    THEN insertionSortInnerLessEq([s EXCEPT ![j] = s[j - 1], ![j - 1] = s[j]],
                                  j - 1)
    ELSE s

RECURSIVE insertionSortInner(_, _)
\* for j := i; j > a && data.Less(j, j-1); j-- { data.Swap(j, j-1) }
insertionSortInner(s, j) ==
    IF j > 1 /\ s[j].key < s[j - 1].key
    THEN insertionSortInner([s EXCEPT ![j] = s[j - 1], ![j - 1] = s[j]], j - 1)
    ELSE s

RECURSIVE insertionSortOuter(_, _)
insertionSortOuter(s, i) ==
    IF i > Len(s) THEN s
    ELSE insertionSortOuter(insertionSortInner(s, i), i + 1)

RECURSIVE shellSortPass(_, _)
\* for i := a + 6; i < b; i++ { if data.Less(i, i-6) { data.Swap(i, i-6) } }
shellSortPass(s, i) ==
    IF i > Len(s) THEN s
    ELSE IF s[i].key < s[i - 6].key
    THEN shellSortPass([s EXCEPT ![i] = s[i - 6], ![i - 6] = s[i]], i + 1)
    ELSE shellSortPass(s, i + 1)

\* sort.Sort and sort.Slice on at most 12 elements, over the collection's Less
\* and Swap: an insertion sort (Go from 1.19 on), before that a Shell pass with
\* gap 6 and then the insertion sort (shell tells which).  s is a sequence of
\* [val, key]; Less compares the keys.  Neither is promised to be stable.
sortSort(s, shell) ==
    insertionSortOuter(IF shell THEN shellSortPass(s, 7) ELSE s, 2)

\* const k = 5, in the function HilbertCurvePivot returns
PivotK == 5

\* The function HilbertCurvePivot(order) returns, applied to set:
\* [panic, set (as sorted in place), i (the index returned)].
HilbertCurvePivot(order, set, nan, shell) ==
    LET k == PivotK
    IN  IF Len(set) < 2 THEN [panic |-> FALSE, set |-> set, i |-> 0]
        ELSE LET dims == Len(Bounds(set[1]).Min)
             IN  IF dims \notin {2, 3, 4}
                 THEN [panic |-> TRUE, set |-> set, i |-> 0]
                 ELSE LET bounds == calculateBounds(set)
                          sorter ==
                              Slice([i \in 1..Len(set) |->
                                  [val |-> set[i],
                                   key |-> Pos(dims, k,
                                               quantize(bounds, 2 ^ k,
                                                        center2(Bounds(set[i])),
                                                        nan)).d]])
                          sorted == sortSort(sorter, shell)
                      IN  [panic |-> FALSE,
                           set |-> Slice([i \in 1..Len(set) |-> sorted[i].val]),
                           i |-> Len(set) \div 2]

\* o.Pivot(set): Options.Pivot is Nil or the closure HilbertCurvePivot(order)
\* made; calling a nil func panics.
CallPivot(o, set, nan, shell) ==
    IF o.Pivot = Nil THEN [panic |-> TRUE, set |-> set, i |-> 0]
    ELSE HilbertCurvePivot(o.Pivot.order, set, nan, shell)

Leaf(bounding, values) ==
    [kind |-> "Leaf", Bounding |-> bounding, Values |-> values]

Branch(bounding, children) ==
    [kind |-> "Branch", Bounding |-> bounding, Children |-> children]

\* The sequence a node holds: a Leaf's Values, a Branch's Children.
Contents(nd) == IF nd.kind = "Leaf" THEN nd.Values ELSE nd.Children

RECURSIVE nodeLen(_)
RECURSIVE nodeLenSum(_, _)
nodeLenSum(children, i) ==
    IF i > Len(children) THEN 0
    ELSE nodeLen(children[i]) + nodeLenSum(children, i + 1)

\* Leaf.len and Branch.len
nodeLen(nd) ==
    IF nd.kind = "Leaf" THEN Len(nd.Values)
    ELSE nodeLenSum(nd.Children, 1)

\* OverlapKeeper.Include
Include(k, b) == Overlaps(Bounds(k), Bounds(b))

\* OverlapKeeper.Keep
Keep(k, b) == IF Include(k, b) THEN [k EXCEPT !.Items = Append(@, b)] ELSE k

RECURSIVE LeafSearchLoop(_, _, _)
LeafSearchLoop(values, i, k) ==
    IF i > Len(values) THEN k
    ELSE LeafSearchLoop(values, i + 1, Keep(k, values[i]))

\* Leaf.search
LeafSearch(l, k) ==
    IF ~Include(k, l) THEN k
    ELSE LeafSearchLoop(l.Values, 1, k)

RECURSIVE nodeSearch(_, _)
RECURSIVE BranchSearchLoop(_, _, _)
BranchSearchLoop(children, i, k) ==
    IF i > Len(children) THEN k
    ELSE BranchSearchLoop(children, i + 1, nodeSearch(children[i], k))

\* Branch.search
BranchSearch(r, k) ==
    IF ~Include(k, r) THEN k
    ELSE BranchSearchLoop(r.Children, 1, k)

\* Node.search
nodeSearch(nd, k) ==
    IF nd.kind = "Leaf" THEN LeafSearch(nd, k) ELSE BranchSearch(nd, k)

\* The enlargement cost of pickForInsert:
\* cbounds.Extent(bbounds).Area() - cbounds.Area()
cost(c, b) == Area(Extent(Bounds(c), Bounds(b))) - Area(Bounds(c))

\* Branch.pickForInsert, as the index (from 1) of the child it returns: the
\* first child of cost 0 if there is one, else the head of the candidates
\* sorted by cost.
pickForInsert(r, b, shell) ==
    LET zero == {i \in 1..Len(r.Children) : cost(r.Children[i], b) = 0}
        candidates ==
            Slice([i \in 1..Len(r.Children) |->
                [val |-> i, key |-> cost(r.Children[i], b)]])
    IN  IF zero # {} THEN CHOOSE i \in zero : \A j \in zero : i <= j
        ELSE sortSort(candidates, shell)[1].val

\* Leaf.insert's split with the value at the pivot left in the receiver too:
\* l.Values = l.Values[:i+1]
LeafSplitOverlap(l, Values, p) ==
    LET lv == SubSeq(p.set, 1, p.i + 1)
        sv == SubSeq(p.set, p.i + 1, Len(p.set))
    IN  IF p.panic
        THEN [node |-> Leaf(l.Bounding, Values), split |-> Nil, panic |-> TRUE]
        ELSE [node |-> Leaf(calculateBounds(lv), lv),
              split |-> Leaf(calculateBounds(sv), sv),
              panic |-> FALSE]

\* Leaf.insert from the call of o.Pivot on: p is what the pivot function
\* returned, Values the receiver's values with b appended.
LeafSplit(l, Values, p) ==
    LET lv == SubSeq(p.set, 1, p.i)
        sv == SubSeq(p.set, p.i + 1, Len(p.set))
    IN  IF p.panic
        THEN [node |-> Leaf(l.Bounding, Values), split |-> Nil, panic |-> TRUE]
        ELSE [node |-> Leaf(calculateBounds(lv), lv),
              split |-> Leaf(calculateBounds(sv), sv),
              panic |-> FALSE]

\* Leaf.insert splitting one value late: at more than 2*FillLevel + 1 values.
LeafInsertLate(o, l, b, nan, shell) ==
    LET Values == Append(l.Values, b)
    IN  IF Len(Values) <= o.FillLevel * 2 + 1
        THEN [node |-> Leaf(Extent(l.Bounding, Bounds(b)), Values),
              split |-> Nil, panic |-> FALSE]
        ELSE LeafSplit(l, Values, CallPivot(o, Values, nan, shell))

\* Leaf.insert: [node (the receiver afterwards), split (the Node returned),
\* panic]
LeafInsert(o, l, b, nan, shell) ==
    LET Values == Append(l.Values, b)
    IN  IF Len(Values) <= o.FillLevel * 2
        THEN [node |-> Leaf(Extent(l.Bounding, Bounds(b)), Values),
              split |-> Nil, panic |-> FALSE]
        ELSE LeafSplit(l, Values, CallPivot(o, Values, nan, shell))

\* Branch.insert from the call of o.Pivot on: p is what the pivot function
\* returned, Children the receiver's children with the split appended.
BranchSplit(r, Children, p) ==
    LET rc == SubSeq(p.set, 1, p.i)
        sc == SubSeq(p.set, p.i + 1, Len(p.set))
    IN  IF p.panic
        THEN [node |-> Branch(r.Bounding, Children), split |-> Nil, panic |-> TRUE]
        ELSE [node |-> Branch(calculateBounds(rc), rc),
              split |-> Branch(calculateBounds(sc), sc),
              panic |-> FALSE]

\* Branch.insert after the picked child's insert: i is the index of the child
\* picked, ins what its insert gave.
BranchInserted(o, r, i, ins, nan, shell) ==
    LET picked == [r.Children EXCEPT ![i] = ins.node]
        Children == Append(picked, ins.split)
    IN  IF ins.panic
        THEN [node |-> Branch(r.Bounding, picked), split |-> Nil, panic |-> TRUE]
        ELSE IF ins.split = Nil
        THEN \* r.rebound(picked)
             [node |-> Branch(Extent(r.Bounding, Bounds(ins.node)), picked),
              split |-> Nil, panic |-> FALSE]
        ELSE IF Len(Children) <= o.FillLevel * 2
        THEN \* return nil: the bounds are left as they were
             [node |-> Branch(r.Bounding, Children),
              split |-> Nil, panic |-> FALSE]
        ELSE BranchSplit(r, Children, CallPivot(o, Children, nan, shell))

RECURSIVE nodeInsert(_, _, _, _, _)

\* Branch.insert
BranchInsert(o, r, b, nan, shell) ==
    LET i == pickForInsert(r, b, shell)
    IN  BranchInserted(o, r, i, nodeInsert(o, r.Children[i], b, nan, shell),
                       nan, shell)

\* Node.insert
nodeInsert(o, nd, b, nan, shell) ==
    IF nd.kind = "Leaf" THEN LeafInsert(o, nd, b, nan, shell)
    ELSE BranchInsert(o, nd, b, nan, shell)

\* DefaultOptions
DefaultFillLevel == 2
DefaultPivotOrder == 5
DefaultOptionsPivot == [kind |-> "HilbertCurvePivot", order |-> DefaultPivotOrder]

\* The guard of Tree.Insert on the item's dimension: 2 <= n || n <= 4
DefaultPivotGuard(dims) == 2 <= dims \/ dims <= 4

\* Tree.Insert putting the split under a Branch of its own beside the old root.
TreeInsertedWrapped(t2, ins) ==
    LET Children == <<ins.node, Branch(Bounds(ins.split), <<ins.split>>)>>
    IN  IF ins.panic \/ ins.split = Nil
        THEN [t |-> [t2 EXCEPT !.Root = ins.node], panic |-> ins.panic]
        ELSE [t |-> [t2 EXCEPT !.Root = Branch(calculateBounds(Children), Children)],
              panic |-> FALSE]

\* Tree.Insert after the root's insert: ins is what it gave.
TreeInserted(t2, ins) ==
    LET Children == <<ins.node, ins.split>>
    IN  IF ins.panic \/ ins.split = Nil
        THEN [t |-> [t2 EXCEPT !.Root = ins.node], panic |-> ins.panic]
        ELSE [t |-> [t2 EXCEPT !.Root = Branch(calculateBounds(Children), Children)],
              panic |-> FALSE]

\* Tree.Insert: [t (the Tree afterwards), panic]
TreeInsert(tr, b, nan, shell) ==
    LET t1 == IF tr.FillLevel < 1
              THEN [tr EXCEPT !.FillLevel = DefaultFillLevel] ELSE tr
        dims == Len(Bounds(b).Min)
        t2 == IF t1.Pivot = Nil /\ DefaultPivotGuard(dims)
              THEN [t1 EXCEPT !.Pivot = DefaultOptionsPivot] ELSE t1
    IN  IF t1.Pivot = Nil /\ ~DefaultPivotGuard(dims)
        THEN \* panic("pivot not set")
             [t |-> t1, panic |-> TRUE]
        ELSE IF t2.Root = Nil
        THEN [t |-> [t2 EXCEPT !.Root = Leaf(calculateBounds(<<b>>), <<b>>)],
              panic |-> FALSE]
        ELSE TreeInserted(t2, nodeInsert(t2, t2.Root, b, nan, shell))

\* Tree.Len: t.Root.len(), a method call on the interface value t.Root, which
\* panics when Root is nil.
TreeLen(tr) ==
    IF tr.Root = Nil THEN [panic |-> TRUE, len |-> 0]
    ELSE [panic |-> FALSE, len |-> nodeLen(tr.Root)]

\* Tree.Search: the keeper afterwards
TreeSearch(tr, k) ==
    IF tr.Root # Nil THEN nodeSearch(tr.Root, k) ELSE k

\* NewOverlap
NewOverlap(b) == [Bounding |-> Bounds(b), Items |-> <<>>]


(***************************************************************************)
(* hilbert_test.go: the curve tests, one cell (or index) n per behaviour.  *)
(***************************************************************************)

\* No single function is called on its own in the tests' behaviours.
UnitUnused ==
    /\ upc = "unused"
    /\ S = None
    /\ pivotOrder = 0
    /\ once = None
    /\ twice = None
    /\ branch = Nil
    /\ item = None
    /\ pick = 0

\* The tree is not part of the curve tests.
TreeUnused ==
    /\ t = NewTree
    /\ nanInt = 0
    /\ shellPass = FALSE
    /\ inserted = <<>>
    /\ out = [op |-> "none", panic |-> FALSE]

\* The curve tests are not part of the tree's behaviours.
CurveUnused ==
    /\ h = None
    /\ n = 0
    /\ cpc = "unused"
    /\ posResult = None
    /\ coordResult = None
    /\ at = None
    /\ next = None
    /\ row = 0
    /\ seen = {}

InitCurve ==
    /\ TreeUnused
    /\ UnitUnused
    /\ h \in Curves
    /\ n \in 0..(CurveLen(h.dim, h.Order) - 1)
    /\ cpc = "start"
    /\ posResult = None
    /\ coordResult = None
    /\ at = None
    /\ next = None
    /\ row = 0
    /\ seen = {}

\* d := c.Pos(dup(v)), v the n-th cell in row-major order
CallPos ==
    /\ cpc = "start"
    /\ posResult' = Pos(h.dim, h.Order, coord(n, h.Order, h.dim))
    /\ cpc' = "Pos"
    /\ UNCHANGED <<h, n, coordResult, at, next, row, seen>>
    /\ UNCHANGED <<treeVars, unitVars>>

\* u := c.Coord(d)
CallCoord ==
    /\ cpc = "Pos"
    /\ coordResult' = Coord(h.dim, h.Order, posResult.d)
    /\ cpc' = "Coord"
    /\ UNCHANGED <<h, n, posResult, at, next, row, seen>>
    /\ UNCHANGED <<treeVars, unitVars>>

\* c.Coord(n), the cell at index n
CallCoordAt ==
    /\ cpc = "start"
    /\ at' = Coord(h.dim, h.Order, n)
    /\ cpc' = "At"
    /\ UNCHANGED <<h, n, posResult, coordResult, next, row, seen>>
    /\ UNCHANGED <<treeVars, unitVars>>

\* c.Coord(n + 1), the cell that follows it: for d := 0; d < D-1; d++
CallCoordNext ==
    /\ cpc = "At"
    /\ n < CurveLen(h.dim, h.Order) - 1
    /\ next' = Coord(h.dim, h.Order, n + 1)
    /\ cpc' = "Next"
    /\ UNCHANGED <<h, n, posResult, coordResult, at, row, seen>>
    /\ UNCHANGED <<treeVars, unitVars>>

NextCurve ==
    \/ CallPos
    \/ CallCoord
    \/ CallCoordAt
    \/ CallCoordNext

SpecCurve == InitCurve /\ [][NextCurve]_vars

(***************************************************************************)
(* testCurve's scan of the whole grid (curveRange), a row of the grid --   *)
(* axis 0, the innermost loop of dimRange -- per step.                     *)
(***************************************************************************)

\* The number of rows of the grid: the cells with axis 0 fixed.
Rows(c) == CurveLen(c.dim, c.Order) \div (2 ^ c.Order)

InitScan ==
    /\ TreeUnused
    /\ UnitUnused
    /\ h \in Curves
    /\ n = 0
    /\ cpc = "scan"
    /\ posResult = None
    /\ coordResult = None
    /\ at = None
    /\ next = None
    /\ row = 0
    /\ seen = {}

\* curveRange's callback over one row: n counts the cells visited so far.
ScanRow ==
    /\ cpc = "scan"
    /\ row < Rows(h)
    /\ seen' = seen \cup
                 {Pos(h.dim, h.Order, coord(n + x, h.Order, h.dim)).d :
                      x \in 0..((2 ^ h.Order) - 1)}
    /\ n' = n + (2 ^ h.Order)
    /\ row' = row + 1
    /\ UNCHANGED <<h, cpc, posResult, coordResult, at, next>>
    /\ UNCHANGED <<treeVars, unitVars>>

\* curveRange returns
ScanDone ==
    /\ cpc = "scan"
    /\ row = Rows(h)
    /\ cpc' = "scanned"
    /\ UNCHANGED <<h, n, posResult, coordResult, at, next, row, seen>>
    /\ UNCHANGED <<treeVars, unitVars>>

NextScan ==
    \/ ScanRow
    \/ ScanDone

SpecScan == InitScan /\ [][NextScan]_vars

(***************************************************************************)
(* The tree's clients: what they insert and what they search for.          *)
(***************************************************************************)

\* The number of Insert calls of a behaviour.
MaxInserts == 6

\* The side of the square (cube) the items lie in; the tests use 3.
GridMax == 3

\* The bounds of the items a client inserts, by dimension: unit boxes at
\* corners of the grid (as in rtree_test.go) and, in the plane, a single point
\* (a box of no width, as BenchmarkTreeSearch inserts).
Shapes(dims) ==
    CASE dims = 1 -> {Bounding(<<0>>, <<1>>), Bounding(<<GridMax - 1>>, <<GridMax>>)}
      [] dims = 2 ->
            {Bounding(<<0, 0>>, <<1, 1>>),
             Bounding(<<GridMax - 1, GridMax - 1>>, <<GridMax, GridMax>>),
             Bounding(<<0, GridMax>>, <<0, GridMax>>)}
      [] dims = 3 ->
            {Bounding(<<0, 0, 0>>, <<1, 1, 1>>),
             Bounding(<<GridMax - 1, GridMax - 1, GridMax - 1>>,
                      <<GridMax, GridMax, GridMax>>)}

\* The dimensions a behaviour may use: one the curves do not support, and two
\* they do.
TreeDims == {1, 2, 3}

\* The regions searched for: the whole grid, its middle (which touches every
\* corner box), and the first corner box.
Queries(dims) ==
    {Bounding(Slice([i \in 1..dims |-> 0]), Slice([i \in 1..dims |-> GridMax])),
     Bounding(Slice([i \in 1..dims |-> 1]), Slice([i \in 1..dims |-> GridMax - 1])),
     Bounding(Slice([i \in 1..dims |-> 0]), Slice([i \in 1..dims |-> 1]))}

\* The fill levels a client sets: none (0, for which Insert takes the default)
\* and that of the tests.
FillLevels == {0, 1}

\* The order a client passes to HilbertCurvePivot when it sets Pivot itself.
ClientPivotOrder == 3

\* What a client sets Pivot to.
Pivots == {Nil, [kind |-> "HilbertCurvePivot", order |-> ClientPivotOrder]}

\* int(NaN) on the builds considered, reduced to the low PivotK bits, the only
\* ones Pos reads: 0 (amd64 gives 0x8000000000000000, arm64 0) and all ones.
NaNInts == {0, (2 ^ PivotK) - 1}

\* The dimension of the behaviour's items: that of the first one inserted.
ItemDims == IF inserted = <<>> THEN TreeDims ELSE {Len(inserted[1].Bounding.Min)}

\* A call has panicked: the program is over.
Panicked == out.panic

InitTree ==
    /\ CurveUnused
    /\ UnitUnused
    /\ t \in [FillLevel : FillLevels, Pivot : Pivots, Root : {Nil}]
    /\ nanInt \in NaNInts
    /\ shellPass \in BOOLEAN
    /\ inserted = <<>>
    /\ out = [op |-> "none", panic |-> FALSE]

\* tree.Insert(b), b a new item of bounds shape.  The client inserts first and
\* looks at the tree afterwards: Len and Search leave the tree as it is.
Insert(shape) ==
    /\ ~Panicked
    /\ out.op \in {"none", "Insert"}
    /\ Len(inserted) < MaxInserts
    /\ LET b == [kind |-> "Item", id |-> Len(inserted) + 1, Bounding |-> shape]
           res == TreeInsert(t, b, nanInt, shellPass)
       IN  /\ t' = res.t
           /\ inserted' = Append(inserted, b)
           /\ out' = [op |-> "Insert", panic |-> res.panic]
    /\ UNCHANGED <<nanInt, shellPass>>
    /\ UNCHANGED <<curveVars, unitVars>>

\* tree.Len()
CallLen ==
    /\ ~Panicked
    /\ LET res == TreeLen(t)
       IN  out' = [op |-> "Len", panic |-> res.panic, len |-> res.len]
    /\ UNCHANGED <<t, nanInt, shellPass, inserted>>
    /\ UNCHANGED <<curveVars, unitVars>>

\* k := rtree.NewOverlap(q); tree.Search(k)
Search(q) ==
    /\ ~Panicked
    /\ LET k == TreeSearch(t, NewOverlap([Bounding |-> q]))
       IN  out' = [op |-> "Search", panic |-> FALSE, query |-> q, Items |-> k.Items]
    /\ UNCHANGED <<t, nanInt, shellPass, inserted>>
    /\ UNCHANGED <<curveVars, unitVars>>

NextTree ==
    \/ \E d \in ItemDims : \E shape \in Shapes(d) : Insert(shape)
    \/ CallLen
    \/ \E d \in ItemDims : \E q \in Queries(d) : Search(q)

Spec == InitTree /\ [][NextTree]_vars

(***************************************************************************)
(* The pivot function called on its own, twice on the same set.            *)
(***************************************************************************)

\* The most items of a set handed to the pivot function.
MaxSet == 6

\* The far corner of the items handed to the pivot function: the width of the
\* grid of the default order, so that centres half a unit apart fall into one
\* cell of it.
PivotGridMax == 32

\* The bounds of the items handed to the pivot function, in dims dimensions:
\* the origin, the unit box at the origin, and the far corner.
PivotShapes(dims) ==
    {Bounding(Slice([i \in 1..dims |-> 0]), Slice([i \in 1..dims |-> 0])),
     Bounding(Slice([i \in 1..dims |-> 0]), Slice([i \in 1..dims |-> 1])),
     Bounding(Slice([i \in 1..dims |-> PivotGridMax]),
              Slice([i \in 1..dims |-> PivotGridMax]))}

\* The dimensions HilbertCurvePivot has a curve for.
PivotDims == {2, 3, 4}

\* The orders a caller hands to HilbertCurvePivot: one coarser and one finer
\* than the default's.
PivotOrders == {ClientPivotOrder, DefaultPivotOrder + 1}

\* The set's bounds have no width on some axis: quantize then divides 0 by 0.
ZeroWidth(set) ==
    LET b == calculateBounds(set)
    IN  \E i \in 1..Len(b.Min) : b.Max[i] = b.Min[i]

\* The sets handed to the pivot function: items of one dimension, numbered in
\* the order given.
PivotSets ==
    UNION {UNION {{Slice([i \in 1..len |->
                       [kind |-> "Item", id |-> i, Bounding |-> shapes[i]]]) :
                   shapes \in [1..len -> PivotShapes(dims)]} :
                  len \in 2..MaxSet} :
           dims \in PivotDims}

\* pivot := HilbertCurvePivot(pivotOrder), and a set S for it.  The builds are
\* told apart where they can differ: int(NaN) on a set with an axis of no
\* width, the Shell pass on one of 7 items or more.
InitPivot ==
    /\ CurveUnused
    /\ t = NewTree
    /\ S \in PivotSets
    /\ nanInt \in IF ZeroWidth(S) THEN NaNInts ELSE {0}
    /\ shellPass \in IF Len(S) > 6 THEN BOOLEAN ELSE {FALSE}
    /\ inserted = <<>>
    /\ out = [op |-> "none", panic |-> FALSE]
    /\ upc = "pivot"
    /\ pivotOrder \in PivotOrders
    /\ once = None
    /\ twice = None
    /\ branch = Nil
    /\ item = None
    /\ pick = 0

\* i := pivot(S): the set is sorted in place.  given keeps the set as it was.
PivotOnce ==
    /\ upc = "pivot"
    /\ LET res == HilbertCurvePivot(pivotOrder, S, nanInt, shellPass)
       IN  /\ S' = res.set
           /\ once' = [set |-> res.set, i |-> res.i, panic |-> res.panic,
                       given |-> S]
    /\ upc' = "once"
    /\ UNCHANGED <<pivotOrder, twice, branch, item, pick>>
    /\ UNCHANGED <<treeVars, curveVars>>

\* pivot(S) once more, on the set as the first call left it
PivotTwice ==
    /\ upc = "once"
    /\ ~once.panic
    /\ LET res == HilbertCurvePivot(pivotOrder, S, nanInt, shellPass)
       IN  /\ S' = res.set
           /\ twice' = [set |-> res.set, i |-> res.i, panic |-> res.panic,
                        given |-> S]
    /\ upc' = "twice"
    /\ UNCHANGED <<pivotOrder, once, branch, item, pick>>
    /\ UNCHANGED <<treeVars, curveVars>>

NextPivot ==
    \/ PivotOnce
    \/ PivotTwice

SpecPivot == InitPivot /\ [][NextPivot]_vars

(***************************************************************************)
(* Branch.pickForInsert called on its own.                                 *)
(***************************************************************************)

\* The most children of the Branch pickForInsert is called on (a Branch holds
\* up to 2*FillLevel).
MaxChildren == 7

\* The bounds of the children: two corner boxes of the grid and a box twice as
\* high as the first.
ChildShapes ==
    {Bounding(<<0, 0>>, <<1, 1>>),
     Bounding(<<GridMax - 1, GridMax - 1>>, <<GridMax, GridMax>>),
     Bounding(<<0, 0>>, <<1, GridMax - 1>>)}

\* The Branches pickForInsert is called on: Leaves of one value each, in any
\* order.
PickBranches ==
    UNION {{LET Children ==
                    Slice([i \in 1..len |->
                        Leaf(shapes[i],
                             <<[kind |-> "Item", id |-> i, Bounding |-> shapes[i]]>>)])
            IN  Branch(calculateBounds(Children), Children) :
            shapes \in [1..len -> ChildShapes]} :
           len \in 2..MaxChildren}

\* A Branch r and an item b for r.pickForInsert(b)
InitPick ==
    /\ CurveUnused
    /\ t = NewTree
    /\ nanInt = 0
    /\ inserted = <<>>
    /\ out = [op |-> "none", panic |-> FALSE]
    /\ upc = "pick"
    /\ S = None
    /\ pivotOrder = 0
    /\ once = None
    /\ twice = None
    /\ branch \in PickBranches
    /\ shellPass \in IF Len(branch.Children) > 6 THEN BOOLEAN ELSE {FALSE}
    /\ item \in {[kind |-> "Item", id |-> 0, Bounding |-> shape] :
                     shape \in Shapes(2)}
    /\ pick = 0

\* picked := r.pickForInsert(b)
Pick ==
    /\ upc = "pick"
    /\ pick' = pickForInsert(branch, item, shellPass)
    /\ upc' = "picked"
    /\ UNCHANGED <<S, pivotOrder, once, twice, branch, item>>
    /\ UNCHANGED <<treeVars, curveVars>>

NextPick == Pick

SpecPick == InitPick /\ [][NextPick]_vars

(***************************************************************************)
(* Properties of package curve.                                            *)
(***************************************************************************)

\* The cell the test drew: the n-th of the grid in row-major order.
Cell == coord(n, h.Order, h.dim)

\* C3: for every curve of dimension 2, 3, 4 and order 1..MaxOrder and every
\* cell v of its grid, Coord(Pos(v')) = v, v' a fresh copy of v.
C3_CoordInvertsPos ==
    cpc = "Coord" => coordResult = Cell

\* C3 happens: a 4-dimensional cell of the highest order that Pos mangled has
\* been mapped to the curve and back.
C3_Witness ==
    /\ cpc = "Coord"
    /\ h = [dim |-> 4, Order |-> MaxOrder]
    /\ posResult.v # Cell
    /\ posResult.d > 0
    /\ coordResult = Cell

\* C4: for every index d below Len() - 1 the cells Coord(d) and Coord(d + 1)
\* differ by exactly 1 on exactly one axis and are equal on every other axis.
C4_Adjacent ==
    cpc = "Next" =>
        \E i \in 1..h.dim :
            /\ at[i] - next[i] \in {-1, 1}
            /\ \A j \in (1..h.dim) \ {i} : at[j] = next[j]

\* C4 happens: two consecutive indices of the 4-dimensional curve that lie in
\* different top-level sub-cubes have both been decoded.
C4_Witness ==
    /\ cpc = "Next"
    /\ h = [dim |-> 4, Order |-> MaxOrder]
    /\ (n + 1) % (16 ^ (MaxOrder - 1)) = 0
    /\ at # next

\* C5: Pos(v) lies in [0, Len()) for every cell of the grid, and over the whole
\* grid Pos takes every integer of that range exactly once.  n cells have been
\* visited; they gave n different positions, all in range, and at the end of
\* the scan these are all of the range.
C5_PosBijection ==
    cpc \in {"scan", "scanned"} =>
        /\ seen \subseteq 0..(CurveLen(h.dim, h.Order) - 1)
        /\ Cardinality(seen) = n
        /\ cpc = "scanned" => seen = 0..(CurveLen(h.dim, h.Order) - 1)

\* C5 happens: the whole grid of the 4-dimensional curve of order 2, 16 rows
\* of 16 cells, has been scanned.
C5_Witness ==
    /\ cpc = "scanned"
    /\ h = [dim |-> 4, Order |-> 2]
    /\ n = 16 ^ 2
    /\ Cardinality(seen) = n

Hilbert2DOrder3 == [dim |-> 2, Order |-> 3]

\* C9 as the spec states it: for Hilbert2D of order 3, Pos([0,0]) = 0x00,
\* Pos([7,7]) = 0x2A and Coord(0x3F) = [4,7].
C9_AsStated ==
    h = Hilbert2DOrder3 =>
        /\ (cpc = "Pos" /\ Cell = <<0, 0>>) => posResult.d = 0
        /\ (cpc = "Pos" /\ Cell = <<7, 7>>) => posResult.d = 42
        /\ (cpc = "At" /\ n = 63) => at = <<4, 7>>

\* C9, amended: for Hilbert2D of order 3, Pos([0,0]) = 0x00, Pos([7,7]) = 0x2A
\* and Coord(0x3F) = [0,7].
C9_Amended ==
    h = Hilbert2DOrder3 =>
        /\ (cpc = "Pos" /\ Cell = <<0, 0>>) => posResult.d = 0
        /\ (cpc = "Pos" /\ Cell = <<7, 7>>) => posResult.d = 42
        /\ (cpc = "At" /\ n = 63) => at = <<0, 7>>

\* C9 happens: Coord(0x3F) has been computed on Hilbert2D of order 3.
C9_Witness ==
    /\ h = Hilbert2DOrder3
    /\ cpc = "At"
    /\ n = 63
    /\ at = <<0, 7>>

\* The traversal the spec gives for Hilbert3D of order 1, indices 0..7.
Hilbert3DOrder1Visits ==
    <<<<0, 0, 0>>, <<1, 0, 0>>, <<1, 1, 0>>, <<0, 1, 0>>,
      <<0, 1, 1>>, <<1, 1, 1>>, <<1, 0, 1>>, <<0, 0, 1>>>>

\* C10: Pos reproduces the reference tables cell for cell and Coord maps each
\* tabulated index back to its cell (Hilbert2D orders 1..3, Hilbert3D orders
\* 1, 2, Hilbert4D order 2); Hilbert3D of order 1 visits the cells the spec
\* lists for indices 0..7.
C10_Tables ==
    LET T == CaseTable(h.dim, h.Order)
    IN  /\ (cpc = "Pos" /\ T # <<>>) => posResult.d = T[n + 1]
        /\ (cpc = "At" /\ T # <<>>) =>
               \A i \in 1..Len(T) : T[i] = n => at = coord(i - 1, h.Order, h.dim)
        /\ (cpc = "At" /\ h = [dim |-> 3, Order |-> 1]) =>
               at = Hilbert3DOrder1Visits[n + 1]

\* C10 happens: the last entry of the 4-dimensional example, 0xAE at cell
\* (3,3,3,3), has been reproduced by Pos, and Hilbert3D of order 1 has been
\* decoded at index 4.
C10_Witness ==
    \/ /\ cpc = "Pos"
       /\ h = [dim |-> 4, Order |-> 2]
       /\ Cell = <<3, 3, 3, 3>>
       /\ posResult.d = 174
    \/ /\ cpc = "At"
       /\ h = [dim |-> 3, Order |-> 1]
       /\ n = 4
       /\ at = <<0, 1, 1>>

(***************************************************************************)
(* Properties of package rtree.                                            *)
(***************************************************************************)

RECURSIVE AllNodes(_)
\* The nodes of the subtree at nd
AllNodes(nd) ==
    IF nd.kind = "Leaf" THEN {nd}
    ELSE {nd} \cup UNION {AllNodes(nd.Children[i]) : i \in 1..Len(nd.Children)}

\* The nodes of the tree
TreeNodes == IF t.Root = Nil THEN {} ELSE AllNodes(t.Root)

\* The tight extent of a node's direct contents
TightBounds(nd) == calculateBounds(Contents(nd))

\* The last Insert returned, and so has every one before it.
Inserted == inserted # <<>> /\ ~Panicked

\* C1: after any sequence of Insert calls every node's bounds equal the tight
\* extent of its direct contents, and the root's bounds equal the extent of
\* all inserted items.
C1_BoundsTight ==
    Inserted =>
        /\ \A nd \in TreeNodes : Bounds(nd) = TightBounds(nd)
        /\ Bounds(t.Root) = calculateBounds(inserted)

\* The number of times item b occurs in the sequence s
Count(b, s) == Cardinality({i \in 1..Len(s) : s[i] = b})

\* C2: Search with a fresh OverlapKeeper for Q leaves in Items exactly the
\* inserted items whose bounds overlap Q, each once.
C2_SearchExact ==
    out.op = "Search" =>
        /\ \A i \in 1..Len(inserted) :
               Count(inserted[i], out.Items) =
                   IF Overlaps(Bounds(inserted[i]), out.query) THEN 1 ELSE 0
        /\ \A i \in 1..Len(out.Items) : Count(out.Items[i], inserted) = 1

\* C6: after n >= 0 Insert calls on a fresh Tree, Len() returns n.
C6_LenCounts ==
    out.op = "Len" => (~out.panic /\ out.len = Len(inserted))

\* C7: after every Insert no node is over-full: every Leaf holds at most
\* 2*FillLevel values and every Branch at most 2*FillLevel children.
C7_FillBound ==
    Inserted =>
        /\ t.FillLevel >= 1
        /\ \A nd \in TreeNodes : Len(Contents(nd)) <= 2 * t.FillLevel

\* C7 happens: inserts have split leaves and a branch and promoted a new root
\* twice; a Leaf and a Branch hold exactly 2*FillLevel entries.
C7_Witness ==
    /\ Inserted
    /\ out.op = "Insert"
    /\ t.Root.kind = "Branch"
    /\ \E i \in 1..Len(t.Root.Children) : t.Root.Children[i].kind = "Branch"
    /\ \E nd \in TreeNodes :
           nd.kind = "Leaf" /\ Len(nd.Values) = 2 * t.FillLevel
    /\ \E nd \in TreeNodes :
           nd.kind = "Branch" /\ Len(nd.Children) = 2 * t.FillLevel

\* C8: an Insert with Pivot unset installs the default pivot and proceeds if
\* the item's dimension is 2, 3 or 4; for any other dimension the call fails
\* and no pivot is installed.
C8_DefaultPivot ==
    [][(t.Pivot = Nil /\ inserted' # inserted) =>
          IF Len(Bounds(inserted'[Len(inserted')]).Min) \in {2, 3, 4}
          THEN t'.Pivot = DefaultOptionsPivot /\ ~out'.panic
          ELSE t'.Pivot = Nil /\ out'.panic]_vars

RECURSIVE LeafDepths(_, _)
\* The depths of the Leaves of the subtree at nd, itself at depth d
LeafDepths(nd, d) ==
    IF nd.kind = "Leaf" THEN {d}
    ELSE UNION {LeafDepths(nd.Children[i], d + 1) : i \in 1..Len(nd.Children)}

\* C12: after any sequence of Insert calls every Leaf is at the same depth
\* below the root, and the children of any one Branch are all Leaves or all
\* Branches.
C12_Balanced ==
    Inserted =>
        /\ Cardinality(LeafDepths(t.Root, 0)) = 1
        /\ \A nd \in TreeNodes :
               nd.kind = "Branch" =>
                   \A i, j \in 1..Len(nd.Children) :
                       nd.Children[i].kind = nd.Children[j].kind

\* C12 happens: the root has been promoted twice, so that the Leaves are two
\* levels below it, and the tree holds MaxInserts items.
C12_Witness ==
    /\ Inserted
    /\ Len(inserted) = MaxInserts
    /\ t.Root.kind = "Branch"
    /\ LeafDepths(t.Root, 0) = {2}

RECURSIVE LeafValues(_)
RECURSIVE LeafValuesFrom(_, _)
\* The values of the Leaves under children[i], children[i + 1], ..., in order
LeafValuesFrom(children, i) ==
    IF i > Len(children) THEN <<>>
    ELSE LeafValues(children[i]) \o LeafValuesFrom(children, i + 1)

\* The values of the Leaves of the subtree at nd, Leaf by Leaf
LeafValues(nd) ==
    IF nd.kind = "Leaf" THEN nd.Values ELSE LeafValuesFrom(nd.Children, 1)

RECURSIVE NodeWalk(_)
RECURSIVE NodeWalkFrom(_, _)
\* The nodes met under children[i], children[i + 1], ..., in order
NodeWalkFrom(children, i) ==
    IF i > Len(children) THEN <<>>
    ELSE NodeWalk(children[i]) \o NodeWalkFrom(children, i + 1)

\* The nodes met on a walk of the subtree at nd, one entry for every place a
\* node is held at
NodeWalk(nd) ==
    IF nd.kind = "Leaf" THEN <<nd>>
    ELSE <<nd>> \o NodeWalkFrom(nd.Children, 1)

\* C15: after any sequence of Insert calls the items stored in the Leaves are
\* the items inserted, each held once and in one Leaf, and no node is held at
\* two places of the tree.  (Items carry their own identity, and no node is
\* empty, so a node held twice is a node equal to another.)
C15_NoLossNoDup ==
    Inserted =>
        LET stored == LeafValues(t.Root)
            walk == NodeWalk(t.Root)
        IN  /\ Len(stored) = Len(inserted)
            /\ \A i \in 1..Len(inserted) : Count(inserted[i], stored) = 1
            /\ \A i \in 1..Len(stored) : Count(stored[i], inserted) = 1
            /\ \A i, j \in 1..Len(walk) : walk[i] = walk[j] => i = j
            /\ \A i \in 1..Len(walk) : Contents(walk[i]) # <<>>

\* C15 happens: Leaves and a Branch have split and the root has been promoted
\* twice, with items of equal bounds among those inserted.
C15_Witness ==
    /\ Inserted
    /\ t.Root.kind = "Branch"
    /\ \E i \in 1..Len(t.Root.Children) : t.Root.Children[i].kind = "Branch"
    /\ \E i, j \in 1..Len(inserted) :
           i # j /\ Bounds(inserted[i]) = Bounds(inserted[j])
    /\ Len(LeafValues(t.Root)) = Len(inserted)
    /\ Cardinality({nd \in TreeNodes : nd.kind = "Leaf"}) >= 4

(***************************************************************************)
(* Properties of the pivot function.                                       *)
(***************************************************************************)

nanAt(k) == IF nanInt = 0 THEN 0 ELSE (2 ^ k) - 1

\* The index of item b of set on the Hilbert curve of order k: its centre
\* quantized onto the grid of side 2^k over the set's bounds.
IndexAtOrder(k, set, b) ==
    Pos(Len(Bounds(b).Min), k,
        quantize(calculateBounds(set), 2 ^ k, center2(Bounds(b)), nanAt(k))).d

\* C13: the pivot function HilbertCurvePivot(k) returns sorts the items by
\* their index on the Hilbert curve of order k, their centres quantized onto
\* a grid of side 2^k, for every k passed in: after the call no item of S
\* stands before one of lower index.
C13_UsesOrder ==
    upc = "once" =>
        \A i \in 1..(Len(S) - 1) :
            IndexAtOrder(pivotOrder, S, S[i]) <= IndexAtOrder(pivotOrder, S, S[i + 1])


(***************************************************************************)
(* Properties of Branch.pickForInsert.                                     *)
(***************************************************************************)

\* The enlargement cost of the i-th child of the Branch for the item
ChildCost(i) == cost(branch.Children[i], item)

\* C14: pickForInsert returns a child of minimal enlargement cost, and of the
\* children of that cost the earliest in the current child order (so a child
\* of cost 0 as soon as it is met).
C14_PicksFirstMinimum ==
    upc = "picked" =>
        /\ \A j \in 1..Len(branch.Children) : ChildCost(pick) <= ChildCost(j)
        /\ \A j \in 1..(pick - 1) : ChildCost(j) > ChildCost(pick)


====
